---- MODULE Spec2Model ----
(***************************************************************************)
(* The catalog generator of src/generate_project_catalog.py as a state     *)
(* machine: CatalogWorkingSet.run() executes its steps in sequence, each   *)
(* step is one action.  Python values are tagged records (int, float, str),*)
(* Python str data whose characters matter (raw part values) are sequences *)
(* of one-character strings, display text is a TLA+ string.  A float is    *)
(* held in tenths: every raw text of the model has at most one fractional  *)
(* digit and every product has one integer factor, so tenths are exact.    *)
(* Model objects are referred to by their index in data.models.            *)
(***************************************************************************)
EXTENDS Integers, Sequences, FiniteSets, TLC

\* The largest number of models (parts) a parameter file of the model holds.
MaxParts == 3

----------------------------------------------------------------------------
(* Text                                                                    *)

Digits == <<"0", "1", "2", "3", "4", "5", "6", "7", "8", "9">>

IsDigit(c) == \E i \in 1..10 : Digits[i] = c

DigitValue(c) == (CHOOSE i \in 1..10 : Digits[i] = c) - 1

\* Code point order of the characters that occur in the model's texts.
Alphabet == <<".", "0", "1", "2", "3", "4", "5", "6", "7", "8", "9",
              "b", "d", "e", "l", "r", "u">>

Ord(c) == CHOOSE i \in 1..Len(Alphabet) : Alphabet[i] = c

RECURSIVE Join(_)
Join(cs) == IF cs = <<>> THEN "" ELSE Head(cs) \o Join(Tail(cs))

RECURSIVE NatToText(_)
NatToText(n) == IF n < 10 THEN Digits[n + 1]
                ELSE NatToText(n \div 10) \o Digits[(n % 10) + 1]

IntToText(n) == IF n < 0 THEN "-" \o NatToText(-n) ELSE NatToText(n)

RECURSIVE DigitsToNat(_)
DigitsToNat(cs) == IF cs = <<>> THEN 0
                   ELSE DigitsToNat(SubSeq(cs, 1, Len(cs) - 1)) * 10
                        + DigitValue(cs[Len(cs)])

AllDigits(cs) == \A i \in 1..Len(cs) : IsDigit(cs[i])

RECURSIVE SeqLess(_, _)
\* str < str: lexicographic by code point.
SeqLess(a, b) ==
    IF b = <<>> THEN FALSE
    ELSE IF a = <<>> THEN TRUE
    ELSE IF Head(a) # Head(b) THEN Ord(Head(a)) < Ord(Head(b))
    ELSE SeqLess(Tail(a), Tail(b))

----------------------------------------------------------------------------
(* Python values                                                           *)

IntV(n) == [kind |-> "int", num |-> n, txt |-> <<>>]

FloatV(t) == [kind |-> "float", num |-> t, txt |-> <<>>]

StrV(cs) == [kind |-> "str", num |-> 0, txt |-> cs]

IsNumber(v) == v.kind \in {"int", "float"}

\* The number a numeric value stands for, in tenths.
Tenths(v) == IF v.kind = "int" THEN v.num * 10 ELSE v.num

\* a == b of Python: numbers compare by value whatever their type.
PyEq(a, b) ==
    IF IsNumber(a) /\ IsNumber(b) THEN Tenths(a) = Tenths(b)
    ELSE a.kind = b.kind /\ a.txt = b.txt

\* a < b raises TypeError unless both are numbers or both are str.
Comparable(a, b) == IsNumber(a) = IsNumber(b)

PyLt(a, b) ==
    IF IsNumber(a) THEN Tenths(a) < Tenths(b) ELSE SeqLess(a.txt, b.txt)

\* repr of a float held in tenths: 10.0, 2.5.
FloatRepr(t) == NatToText(t \div 10) \o "." \o NatToText(t % 10)

\* str(v), what an f-string puts for {v}.
PyStr(v) ==
    CASE v.kind = "int" -> IntToText(v.num)
      [] v.kind = "float" -> FloatRepr(v.num)
      [] OTHER -> Join(v.txt)

\* a * b: int*int is an int, a float factor makes a float, str*int repeats
\* the text, anything else raises TypeError.
RECURSIVE Repeat(_, _)
Repeat(cs, n) == IF n <= 0 THEN <<>> ELSE cs \o Repeat(cs, n - 1)

PyMulDefined(a, b) ==
    \/ IsNumber(a) /\ IsNumber(b)
    \/ a.kind = "str" /\ b.kind = "int"
    \/ a.kind = "int" /\ b.kind = "str"

PyMul(a, b) ==
    CASE a.kind = "int" /\ b.kind = "int" -> IntV(a.num * b.num)
      [] a.kind = "float" /\ b.kind = "int" -> FloatV(a.num * b.num)
      [] a.kind = "int" /\ b.kind = "float" -> FloatV(a.num * b.num)
      [] a.kind = "float" /\ b.kind = "float" -> FloatV((a.num * b.num) \div 10)
      [] a.kind = "str" /\ b.kind = "int" -> StrV(Repeat(a.txt, b.num))
      [] OTHER -> StrV(Repeat(b.txt, a.num))

----------------------------------------------------------------------------
(* Coercion of a raw value, process_models lines 345-351                   *)

HasDot(raw) == \E i \in 1..Len(raw) : raw[i] = "."

DotAt(raw) == CHOOSE i \in 1..Len(raw) : raw[i] = "."

\* float(raw) for plain decimal notation: digits, one point, at most one
\* fractional digit, at least one digit in all.  Any other text with a point
\* is no float.
FloatParses(raw) ==
    /\ HasDot(raw)
    /\ LET whole == SubSeq(raw, 1, DotAt(raw) - 1)
           frac == SubSeq(raw, DotAt(raw) + 1, Len(raw))
       IN /\ AllDigits(whole) /\ AllDigits(frac)
          /\ Len(whole) + Len(frac) > 0
          /\ Len(frac) <= 1

ParseFloat(raw) ==
    LET whole == SubSeq(raw, 1, DotAt(raw) - 1)
        frac == SubSeq(raw, DotAt(raw) + 1, Len(raw))
    IN FloatV(DigitsToNat(whole) * 10 + DigitsToNat(frac))

\* int(raw) for an optional sign and decimal digits.
IntParses(raw) ==
    /\ raw # <<>>
    /\ LET body == IF raw[1] \in {"-", "+"} THEN Tail(raw) ELSE raw
       IN body # <<>> /\ AllDigits(body)

ParseInt(raw) ==
    IF raw[1] = "-" THEN IntV(-DigitsToNat(Tail(raw)))
    ELSE IF raw[1] = "+" THEN IntV(DigitsToNat(Tail(raw)))
    ELSE IntV(DigitsToNat(raw))

\* FALSE where float(value) raises ValueError (the only uncaught failure).
CoerceDefined(raw) == HasDot(raw) => FloatParses(raw)

\* As Coerce, but without the float parse.
CoerceWithoutFloat(raw) ==
    IF IntParses(raw) THEN ParseInt(raw) ELSE StrV(raw)

Coerce(raw) ==
    IF HasDot(raw) THEN ParseFloat(raw)
    ELSE IF IntParses(raw) THEN ParseInt(raw)
    ELSE StrV(raw)

----------------------------------------------------------------------------
(* Parameter and Parameter.format_value                                    *)

Parameter(title, name, unit) ==
    [title |-> title, name |-> name, unit |-> unit, is_derived |-> FALSE,
     derived_expression |-> "", format_expression |-> ""]

\* A formatted value: display text, or the non-str object a format rule gave.
TextF(s) == [is_text |-> TRUE, text |-> s, object |-> IntV(0)]

ObjectF(v) == [is_text |-> FALSE, text |-> "", object |-> v]

AsFormatted(v) == IF v.kind = "str" THEN TextF(Join(v.txt)) ELSE ObjectF(v)

\* str of a formatted value, what an f-string puts for it in a title.
FormattedStr(f) == IF f.is_text THEN f.text ELSE PyStr(f.object)

RECURSIVE Pow10(_)
Pow10(k) == IF k = 0 THEN 1 ELSE 10 * Pow10(k - 1)

\* The k >= 1 with 10*10^k <= t < 100*10^k, for t >= 100 tenths.
RECURSIVE SciExponent(_, _)
SciExponent(t, k) == IF t < 100 * Pow10(k) THEN k ELSE SciExponent(t, k + 1)

\* f'{value:.2}' of a float >= 0 held in tenths: two significant digits,
\* fixed notation below 10, scientific from 10 on, ties to even.
FormatFloat2(t) ==
    IF t < 100 THEN FloatRepr(t)
    ELSE LET k == SciExponent(t, 1)
             u == Pow10(k)
             q == t \div u
             r == t % u
             up == (2 * r > u) \/ (2 * r = u /\ q % 2 = 1)
             q1 == IF up THEN q + 1 ELSE q
             m == IF q1 = 100 THEN 10 ELSE q1
             e == IF q1 = 100 THEN k + 1 ELSE k
         IN NatToText(m \div 10)
            \o (IF m % 10 = 0 THEN "" ELSE "." \o NatToText(m % 10))
            \o "e+" \o (IF e < 10 THEN "0" ELSE "") \o NatToText(e)

\* The format rules of the model's configurations.
FormatDefined(expression, value) ==
    expression = "value * 2" => PyMulDefined(value, IntV(2))

EvalFormat(expression, value) ==
    CASE expression = "str(value)" -> TextF(PyStr(value))
      [] OTHER -> AsFormatted(PyMul(value, IntV(2)))

\* As format_value, but with every unit that is not empty appended.
format_value_with_unit(parameter, value) ==
    IF parameter.format_expression # ""
    THEN EvalFormat(parameter.format_expression, value)
    ELSE LET text == IF value.kind = "float" THEN FormatFloat2(value.num)
                     ELSE PyStr(value)
         IN TextF(IF parameter.unit # ""
                  THEN text \o " " \o parameter.unit
                  ELSE text)

format_value(parameter, value) ==
    IF parameter.format_expression # ""
    THEN EvalFormat(parameter.format_expression, value)
    ELSE LET text == IF value.kind = "float" THEN FormatFloat2(value.num)
                     ELSE PyStr(value)
         IN TextF(IF parameter.unit # "" /\ parameter.unit # "None"
                  THEN text \o " " \o parameter.unit
                  ELSE text)

----------------------------------------------------------------------------
(* Derived expressions of the model's configurations                       *)

\* The expression text as a product of two entries of the values map.
Operands(expression) ==
    CASE expression = "values['width'] * values['width']" -> <<"width", "width">>
      [] expression = "values['width'] * values['depth']" -> <<"width", "depth">>
      [] OTHER -> <<"area", "depth">>

\* The exception eval() raises for the expression over values, "" if none.
EvalError(expression, values) ==
    LET ops == Operands(expression)
    IN IF ops[1] \notin DOMAIN values \/ ops[2] \notin DOMAIN values
       THEN "KeyError"
       ELSE IF ~PyMulDefined(values[ops[1]], values[ops[2]])
       THEN "TypeError"
       ELSE ""

\* As EvalDerived, but the product taken as a float.
EvalDerivedAsFloat(expression, values) ==
    LET ops == Operands(expression)
    IN PyMul(PyMul(values[ops[1]], values[ops[2]]), FloatV(10))

EvalDerived(expression, values) ==
    LET ops == Operands(expression)
    IN PyMul(values[ops[1]], values[ops[2]])

----------------------------------------------------------------------------
(* Sequences                                                               *)

Range(s) == {s[i] : i \in 1..Len(s)}

NoDuplicates(s) == \A i, j \in 1..Len(s) : s[i] = s[j] => i = j

\* The sequences over S without repeated entries, of length lo..hi.
RECURSIVE SeqsUpTo(_, _)
SeqsUpTo(S, n) ==
    IF n = 0 THEN {<<>>}
    ELSE LET shorter == SeqsUpTo(S, n - 1)
         IN shorter \cup {Append(s, x) : s \in shorter, x \in S}

DistinctSeqs(S, lo, hi) ==
    {s \in SeqsUpTo(S, hi) : Len(s) >= lo /\ NoDuplicates(s)}

Permutations_of(S) == {s \in SeqsUpTo(S, Cardinality(S)) :
                         Len(s) = Cardinality(S) /\ Range(s) = S}

\* The function f extended or overwritten at key k.
Put(f, k, v) == [x \in DOMAIN f \cup {k} |-> IF x = k THEN v ELSE f[x]]

EmptyMap == [x \in {} |-> 0]

----------------------------------------------------------------------------
(* The state of a CatalogWorkingSet                                        *)

VARIABLES
    pc,               \* the step of run() to execute next, or how run() ended
    error,            \* the exception that ended run(): its type and message
    parameter,        \* self.data.parameter: the declared parameters by name
    models,           \* self.data.models, each with its values once processed
    parameter_order,  \* self.parameter_order
    detail_order,     \* self.detail_order
    primary_group,    \* self.primary_group
    all_parameters,   \* self.all_parameters
    parameter_map,    \* self.parameter_map
    sorted_models,    \* self.sorted_models, as indexes into models
    value_sets,       \* self.value_sets
    model_groups,     \* self.model_groups
    table_groups,     \* self.table_groups
    tex_written,      \* catalog.tex is written to the intermediate directory
    pdflatex_runs,    \* the pdflatex runs create_pdf_from_latex has made
    pdf_moved,        \* the PDF is moved to its target path
    cleaned           \* the intermediate directory is removed

\* What generate_pdf and clean_up write.
pdf_vars == <<tex_written, pdflatex_runs, pdf_moved, cleaned>>

vars == <<pc, error, parameter, models, parameter_order, detail_order,
          primary_group, all_parameters, parameter_map, sorted_models,
          value_sets, model_groups, table_groups, pdf_vars>>

NoError == [type |-> "", message |-> <<>>]

\* An exception: its type and the pieces its message is put together from.
Exception(type, message) == [type |-> type, message |-> message]

\* As EndOf, but any other exception is passed over and run() goes on.
EndOfPassedOver(exception) ==
    IF exception.type = "ScriptError" THEN "exit" ELSE "generate_pdf"

\* run() catches ScriptError and exits with its message; any other exception
\* leaves run() uncaught.
EndOf(exception) == IF exception.type = "ScriptError" THEN "exit" ELSE "crash"

Init ==
    /\ pc = "read_parameter_file"
    /\ error = NoError
    /\ parameter = EmptyMap
    /\ models = <<>>
    /\ parameter_order = <<>>
    /\ detail_order = <<>>
    /\ primary_group = <<>>
    /\ all_parameters = <<>>
    /\ parameter_map = EmptyMap
    /\ sorted_models = <<>>
    /\ value_sets = EmptyMap
    /\ model_groups = <<>>
    /\ table_groups = <<>>
    /\ tex_written = FALSE
    /\ pdflatex_runs = 0
    /\ pdf_moved = FALSE
    /\ cleaned = FALSE

----------------------------------------------------------------------------
(* read_parameter_file: Data.__init__ and Model.from_data                  *)

Model(part_id, original_values) ==
    [part_id |-> part_id, original_values |-> original_values,
     values |-> EmptyMap, formatted_values |-> EmptyMap]

PartIds == <<"A", "B", "C", "D", "E", "F">>

\* The declared parameters of the model's parameter files.
DeclaredParameters ==
    [width |-> Parameter("Width", "width", "mm"),
     depth |-> Parameter("Depth", "depth", "mm"),
     color |-> Parameter("Color", "color", "None")]

\* The raw values a part record of the model's parameter files gives.
WidthTexts == {<<"5">>, <<"1", "0">>, <<"1", "0", ".", "0">>}

ColorTexts == {<<"r", "e", "d">>, <<"b", "l", "u", "e">>}

\* The catalog has blue parts of width 10 only.
BlueOnly ==
    {[width |-> w, depth |-> <<"2", "0">>, color |-> <<"b", "l", "u", "e">>] :
        w \in {<<"5">>, <<"1", "0", ".", "0">>}}

PartRecords ==
    {[width |-> w, depth |-> <<"2", "0">>, color |-> c] :
        w \in WidthTexts, c \in ColorTexts} \ BlueOnly

read_parameter_file(records) ==
    /\ pc = "read_parameter_file"
    /\ \E n \in 0..MaxParts :
         \E data \in [1..n -> records] :
            models' = [i \in 1..n |-> Model(PartIds[i], data[i])]
    /\ parameter' = DeclaredParameters
    /\ pc' = "read_configuration"
    /\ UNCHANGED <<error, parameter_order, detail_order, primary_group,
                   all_parameters, parameter_map, sorted_models, value_sets,
                   model_groups, table_groups, pdf_vars>>

----------------------------------------------------------------------------
(* read_configuration                                                      *)

\* A config.ini: section main as fields, the sections derived and format as
\* maps from key to text.  Section main's detail_order may be absent.
Config(order, has_detail, detail, primary, flagged, derived, format) ==
    [parameter_order |-> order, has_detail_order |-> has_detail,
     detail_order |-> detail, primary_group |-> primary,
     derived_parameters |-> flagged, derived |-> derived, format |-> format]

\* Lines 303-324 for one parameter name: the Parameter, or the ScriptError.
ResolveParameter(config, declared, name) ==
    LET found ==
          IF name \in DOMAIN declared
          THEN [error |-> NoError, parameter |-> declared[name]]
          ELSE IF (name \o "_title") \in DOMAIN config.derived
          THEN IF (name \o "_expression") \notin DOMAIN config.derived
               THEN [error |-> Exception("ScriptError",
                        <<"Missing {parameter_name}_expression in section \"derived\".">>),
                     parameter |-> Parameter("", "", "")]
               ELSE [error |-> NoError,
                     parameter |->
                        [Parameter(config.derived[name \o "_title"], name,
                                   IF (name \o "_unit") \in DOMAIN config.derived
                                   THEN config.derived[name \o "_unit"]
                                   ELSE "")
                         EXCEPT !.is_derived = TRUE,
                                !.derived_expression =
                                    config.derived[name \o "_expression"]]]
          ELSE [error |-> Exception("ScriptError",
                   <<"Missing parameter \"", name,
                     "\". Not in \"parameters.json\" and also not defined in section \"derived\" in \"config.ini\".">>),
                parameter |-> Parameter("", "", "")]
        formatted ==
          IF name \in DOMAIN config.format
          THEN [found.parameter EXCEPT !.format_expression = config.format[name]]
          ELSE found.parameter
        flagged ==
          IF name \in config.derived_parameters
          THEN [formatted EXCEPT !.is_derived = TRUE]
          ELSE formatted
    IN IF found.error.type # "" THEN found
       ELSE [error |-> NoError, parameter |-> flagged]

\* As RegisterParameters, but a name that does not resolve is passed over.
RECURSIVE RegisterParametersResolved(_, _, _, _, _)
RegisterParametersResolved(config, declared, all, i, map) ==
    IF i > Len(all) THEN [error |-> NoError, parameter_map |-> map]
    ELSE LET r == ResolveParameter(config, declared, all[i])
         IN RegisterParametersResolved(config, declared, all, i + 1,
               IF r.error.type # "" THEN map ELSE Put(map, all[i], r.parameter))

\* The loop of lines 302-325 from the i-th name on: it stops at the first
\* name that does not resolve, with the names before it registered.
RECURSIVE RegisterParameters(_, _, _, _, _)
RegisterParameters(config, declared, all, i, map) ==
    IF i > Len(all) THEN [error |-> NoError, parameter_map |-> map]
    ELSE LET r == ResolveParameter(config, declared, all[i])
         IN IF r.error.type # ""
            THEN [error |-> r.error, parameter_map |-> map]
            ELSE RegisterParameters(config, declared, all, i + 1,
                                    Put(map, all[i], r.parameter))

\* As AllParameterOrders, but of the names of parameter_order alone.
AllParameterOrdersOfOrder(order, detail) == Permutations_of(Range(order))

\* Line 267: list(set(...).union(set(...))) lists the names in the iteration
\* order of a set of str, which the hash seed of the run decides.
AllParameterOrders(order, detail) ==
    Permutations_of(Range(order) \cup Range(detail))

read_configuration(configs) ==
    /\ pc = "read_configuration"
    /\ \E config \in configs :
         LET detail == IF config.has_detail_order THEN config.detail_order
                       ELSE config.parameter_order
         IN \E all \in AllParameterOrders(config.parameter_order, detail) :
              LET r == RegisterParameters(config, parameter, all, 1, EmptyMap)
              IN /\ parameter_order' = config.parameter_order
                 /\ detail_order' = detail
                 /\ primary_group' = config.primary_group
                 /\ all_parameters' = all
                 /\ parameter_map' = r.parameter_map
                 \* a declared Parameter is the object the map holds
                 /\ parameter' = [n \in DOMAIN parameter |->
                                    IF n \in DOMAIN r.parameter_map
                                    THEN r.parameter_map[n] ELSE parameter[n]]
                 /\ error' = r.error
                 /\ pc' = IF r.error.type = "" THEN "process_models"
                          ELSE EndOf(r.error)
    /\ UNCHANGED <<models, sorted_models, value_sets, model_groups,
                   table_groups, pdf_vars>>

----------------------------------------------------------------------------
(* process_models                                                          *)

HasFormula(p) == p.is_derived /\ p.derived_expression # ""

\* Lines 340-352 from the i-th name of all_parameters on: the raw values of
\* the attributes without formula, coerced.  A missing raw value raises
\* KeyError, a text with a point that is no float raises ValueError.
RECURSIVE Pass1(_, _, _, _, _)
Pass1(model, all, map, i, values) ==
    IF i > Len(all) THEN [error |-> NoError, values |-> values]
    ELSE LET p == map[all[i]]
         IN IF HasFormula(p) THEN Pass1(model, all, map, i + 1, values)
            ELSE IF p.name \notin DOMAIN model.original_values
            THEN [error |-> Exception("KeyError", <<"'", p.name, "'">>),
                  values |-> values]
            ELSE IF ~CoerceDefined(model.original_values[p.name])
            THEN [error |-> Exception("ValueError",
                     <<"could not convert string to float: '",
                       Join(model.original_values[p.name]), "'">>),
                  values |-> values]
            ELSE Pass1(model, all, map, i + 1,
                       Put(values, p.name, Coerce(model.original_values[p.name])))

\* The exception of eval() in line 356, as Python reports it.
DerivedException(expression, values) ==
    LET ops == Operands(expression)
    IN IF EvalError(expression, values) = "KeyError"
       THEN Exception("KeyError",
                <<"'", IF ops[1] \notin DOMAIN values THEN ops[1] ELSE ops[2], "'">>)
       ELSE Exception("TypeError", <<"can't multiply sequence by non-int">>)

\* Lines 353-360 from the i-th name on: the derived values, each stored as
\* soon as it is evaluated, and the formatted value of every attribute.
RECURSIVE Pass2(_, _, _, _, _)
Pass2(all, map, i, values, formatted) ==
    IF i > Len(all)
    THEN [error |-> NoError, values |-> values, formatted_values |-> formatted]
    ELSE LET p == map[all[i]]
             failed == HasFormula(p) /\ EvalError(p.derived_expression, values) # ""
             value == IF HasFormula(p) THEN EvalDerived(p.derived_expression, values)
                      ELSE values[p.name]
         IN IF failed
            THEN [error |-> DerivedException(p.derived_expression, values),
                  values |-> values, formatted_values |-> formatted]
            ELSE IF ~FormatDefined(p.format_expression, value)
            THEN [error |-> Exception("TypeError",
                               <<"unsupported operand type(s) for *">>),
                  values |-> Put(values, p.name, value),
                  formatted_values |-> formatted]
            ELSE Pass2(all, map, i + 1, Put(values, p.name, value),
                       Put(formatted, p.name, format_value(p, value)))

\* Lines 337-362 for one model.
ProcessModel(model, all, map) ==
    LET first == Pass1(model, all, map, 1, EmptyMap)
    IN IF first.error.type # ""
       THEN [error |-> first.error, values |-> EmptyMap,
             formatted_values |-> EmptyMap]
       ELSE Pass2(all, map, 1, first.values, EmptyMap)

\* The loop of line 334 from the i-th model on: a model's maps are assigned
\* when both passes are through, the first exception ends the loop.
RECURSIVE ProcessLoop(_, _, _, _)
ProcessLoop(ms, all, map, i) ==
    IF i > Len(ms) THEN [error |-> NoError, models |-> ms]
    ELSE LET r == ProcessModel(ms[i], all, map)
         IN IF r.error.type # "" THEN [error |-> r.error, models |-> ms]
            ELSE ProcessLoop(
                    [ms EXCEPT ![i].values = r.values,
                               ![i].formatted_values = r.formatted_values],
                    all, map, i + 1)

Min(S) == CHOOSE x \in S : \A y \in S : x <= y

\* As SortKey, but with the last parameter first.
SortKeyReversed(model, order) ==
    [k \in 1..Len(order) |-> model.values[order[Len(order) + 1 - k]]]

\* itemgetter(*parameter_order)(x.values): the sort key of a model.
SortKey(model, order) == [k \in 1..Len(order) |-> model.values[order[k]]]

\* The first place where two keys are not equal, 0 if there is none.
FirstDifference(a, b) ==
    LET d == {k \in 1..Len(a) : ~PyEq(a[k], b[k])}
    IN IF d = {} THEN 0 ELSE Min(d)

\* key a < key b, as Python compares tuples.
KeyLess(a, b) ==
    LET k == FirstDifference(a, b)
    IN k # 0 /\ PyLt(a[k], b[k])

\* Comparing the two keys raises TypeError.
KeysIncomparable(a, b) ==
    LET k == FirstDifference(a, b)
    IN k # 0 /\ ~Comparable(a[k], b[k])

\* As InsertSorted, but before the entries that are equal.
InsertSortedBeforeEqual(s, x, ms, order) ==
    LET after == {i \in 1..Len(s) :
                    ~KeyLess(SortKey(ms[s[i]], order), SortKey(ms[x], order))}
    IN IF after = {} THEN Append(s, x)
       ELSE SubSeq(s, 1, Min(after) - 1) \o <<x>> \o SubSeq(s, Min(after), Len(s))

\* x put into the sorted list s behind every entry that is not greater.
InsertSorted(s, x, ms, order) ==
    LET after == {i \in 1..Len(s) :
                    KeyLess(SortKey(ms[x], order), SortKey(ms[s[i]], order))}
    IN IF after = {} THEN Append(s, x)
       ELSE SubSeq(s, 1, Min(after) - 1) \o <<x>> \o SubSeq(s, Min(after), Len(s))

\* list.sort: a stable sort, here by insertion from the left.
RECURSIVE SortFrom(_, _, _, _)
SortFrom(s, i, ms, order) ==
    IF i > Len(ms) THEN s
    ELSE SortFrom(InsertSorted(s, i, ms, order), i + 1, ms, order)

SortedModels(ms, order) == SortFrom(<<>>, 1, ms, order)

\* list.sort raises TypeError exactly if two keys are incomparable: a sort
\* that ends has settled the order of every two models, and nothing but
\* their own comparison settles the order of two incomparable keys.
SortRaises(ms, order) ==
    \E i, j \in 1..Len(ms) :
        KeysIncomparable(SortKey(ms[i], order), SortKey(ms[j], order))

process_models ==
    /\ pc = "process_models"
    /\ \E r \in {ProcessLoop(models, all_parameters, parameter_map, 1)} :
       LET raises == r.error.type = "" /\ SortRaises(r.models, parameter_order)
       IN /\ models' = r.models
          /\ error' = IF raises
                      THEN Exception("TypeError", <<"'<' not supported">>)
                      ELSE r.error
          \* a sort that raises leaves the copied list in some order
          /\ sorted_models' \in
                IF r.error.type # "" THEN {sorted_models}
                ELSE IF raises THEN Permutations_of(1..Len(models))
                ELSE {SortedModels(r.models, parameter_order)}
          /\ pc' = IF r.error.type # "" THEN EndOf(r.error)
                   ELSE IF raises THEN "crash"
                   ELSE "generate_tables"
    /\ UNCHANGED <<parameter, parameter_order, detail_order, primary_group,
                   all_parameters, parameter_map, value_sets, model_groups,
                   table_groups, pdf_vars>>

----------------------------------------------------------------------------
(* generate_tables                                                         *)

\* The values of attribute name over the models, in the order of the models.
Column(ms, name) == [i \in 1..Len(ms) |-> ms[i].values[name]]

\* As AddAll, but equal numbers of different type are held side by side.
RECURSIVE AddAllByType(_, _, _)
AddAllByType(held, vs, i) ==
    IF i > Len(vs) THEN held
    ELSE AddAllByType(IF \E k \in 1..Len(held) : held[k] = vs[i] THEN held
                      ELSE Append(held, vs[i]),
                      vs, i + 1)

\* As AddAll, but a list: equal values are held again.
AddAllRepeated(held, vs, i) == held \o SubSeq(vs, i, Len(vs))

\* What a set holds after the values are added in order: of equal values
\* (10 and 10.0 are equal, with equal hash) the one added first.
RECURSIVE AddAll(_, _, _)
AddAll(held, vs, i) ==
    IF i > Len(vs) THEN held
    ELSE AddAll(IF \E k \in 1..Len(held) : PyEq(held[k], vs[i]) THEN held
                ELSE Append(held, vs[i]),
                vs, i + 1)

\* sorted() of pairwise unequal values: ascending.
RECURSIVE SortedValues(_)
SortedValues(vs) ==
    IF vs = <<>> THEN <<>>
    ELSE LET m == CHOOSE i \in 1..Len(vs) :
                     \A j \in 1..Len(vs) : ~PyLt(vs[j], vs[i])
         IN <<vs[m]>> \o SortedValues(SubSeq(vs, 1, m - 1) \o SubSeq(vs, m + 1, Len(vs)))

\* sorted() raises TypeError if the set holds a number and a str.
SortedRaises(vs) == \E i, j \in 1..Len(vs) : ~Comparable(vs[i], vs[j])

\* Line 411 for one parameter: its values with their formatted text.
ValueSet(ms, p) ==
    LET vs == SortedValues(AddAll(<<>>, Column(ms, p.name), 1))
    IN [k \in 1..Len(vs) |-> <<vs[k], format_value(p, vs[k])>>]

ValueSetRaises(ms, p) ==
    LET held == AddAll(<<>>, Column(ms, p.name), 1)
    IN \/ SortedRaises(held)
       \/ \E k \in 1..Len(held) : ~FormatDefined(p.format_expression, held[k])

\* _create_value_sets from the i-th name of parameter_order on: the sets of
\* the names before the first one that raises are stored.
RECURSIVE create_value_sets(_, _, _, _, _)
create_value_sets(ms, order, map, i, sets) ==
    IF i > Len(order) THEN [error |-> NoError, value_sets |-> sets]
    ELSE IF ValueSetRaises(ms, map[order[i]])
    THEN [error |-> Exception("TypeError", <<"'<' not supported">>),
          value_sets |-> sets]
    ELSE create_value_sets(ms, order, map, i + 1,
                           Put(sets, order[i], ValueSet(ms, map[order[i]])))

ModelGroup(title, members) == [title |-> title, models |-> members]

\* As SingleGroups, but with the members in the order of data.models.
SingleGroupsUnsorted(ms, sorted, sets, p, name) ==
    [k \in 1..Len(sets[p.name]) |->
        LET Matches(m) == PyEq(ms[m].values[name], sets[p.name][k][1])
        IN ModelGroup("Models with " \o p.title \o " = "
                         \o FormattedStr(sets[p.name][k][2]),
                      SelectSeq([m \in 1..Len(ms) |-> m], Matches))]

\* Lines 422-427: one group per entry of the value set of the one primary
\* parameter.
SingleGroups(ms, sorted, sets, p, name) ==
    [k \in 1..Len(sets[p.name]) |->
        LET Matches(m) == PyEq(ms[m].values[name], sets[p.name][k][1])
        IN ModelGroup("Models with " \o p.title \o " = "
                         \o FormattedStr(sets[p.name][k][2]),
                      SelectSeq(sorted, Matches))]

\* As PairGroups, but a model matches with one of the two values.
PairGroupsEither(ms, sorted, sets, p0, p1) ==
    LET n1 == Len(sets[p1.name])
    IN [k \in 1..(Len(sets[p0.name]) * n1) |->
          LET c0 == sets[p0.name][((k - 1) \div n1) + 1]
              c1 == sets[p1.name][((k - 1) % n1) + 1]
              Matches(m) == \/ PyEq(c0[1], ms[m].values[p0.name])
                            \/ PyEq(c1[1], ms[m].values[p1.name])
          IN ModelGroup("Models with"
                           \o " " \o p0.title \o " = " \o FormattedStr(c0[2])
                           \o " " \o p1.title \o " = " \o FormattedStr(c1[2]),
                        SelectSeq(sorted, Matches))]

\* As PairGroups, but with the second value set outermost.
PairGroupsSecondMajor(ms, sorted, sets, p0, p1) ==
    LET n0 == Len(sets[p0.name])
    IN [k \in 1..(n0 * Len(sets[p1.name])) |->
          LET c0 == sets[p0.name][((k - 1) % n0) + 1]
              c1 == sets[p1.name][((k - 1) \div n0) + 1]
              Matches(m) == /\ PyEq(c0[1], ms[m].values[p0.name])
                            /\ PyEq(c1[1], ms[m].values[p1.name])
          IN ModelGroup("Models with"
                           \o " " \o p0.title \o " = " \o FormattedStr(c0[2])
                           \o " " \o p1.title \o " = " \o FormattedStr(c1[2]),
                        SelectSeq(sorted, Matches))]

\* Lines 428-445: itertools.product of the two value sets, the first one
\* outermost.
PairGroups(ms, sorted, sets, p0, p1) ==
    LET n1 == Len(sets[p1.name])
    IN [k \in 1..(Len(sets[p0.name]) * n1) |->
          LET c0 == sets[p0.name][((k - 1) \div n1) + 1]
              c1 == sets[p1.name][((k - 1) % n1) + 1]
              Matches(m) == /\ PyEq(c0[1], ms[m].values[p0.name])
                            /\ PyEq(c1[1], ms[m].values[p1.name])
          IN ModelGroup("Models with"
                           \o " " \o p0.title \o " = " \o FormattedStr(c0[2])
                           \o " " \o p1.title \o " = " \o FormattedStr(c1[2]),
                        SelectSeq(sorted, Matches))]

\* The first name of the primary group that is no key of the map f.
MissingKey(f, names) ==
    names[Min({i \in 1..Len(names) : names[i] \notin DOMAIN f})]

\* As SkipsGrouping, but never.
SkipsGroupingNever(order) == FALSE

\* As SkipsGrouping, but by the number of all configured parameters.
SkipsGroupingByActiveSet(order) == Cardinality(DOMAIN parameter_map) = 1

\* Line 417: no primary grouping with a single parameter in parameter_order.
SkipsGrouping(order) == Len(order) = 1

\* _create_main_model_groups: the groups, or the exception.
create_main_model_groups(ms, sorted, order, primary, map, sets) ==
    IF SkipsGrouping(order)
    THEN [error |-> NoError, model_groups |-> <<ModelGroup("", sorted)>>]
    ELSE IF \E i \in 1..Len(primary) : primary[i] \notin DOMAIN map
    THEN [error |-> Exception("KeyError", <<"'", MissingKey(map, primary), "'">>),
          model_groups |-> <<>>]
    ELSE IF Len(primary) \notin {1, 2}
    THEN [error |-> Exception("ValueError",
             <<"Not more than two parameters supported for primary group.">>),
          model_groups |-> <<>>]
    ELSE IF \E i \in 1..Len(primary) : primary[i] \notin DOMAIN sets
    THEN [error |-> Exception("KeyError", <<"'", MissingKey(sets, primary), "'">>),
          model_groups |-> <<>>]
    ELSE IF Len(primary) = 1
    THEN [error |-> NoError,
          model_groups |-> SingleGroups(ms, sorted, sets, map[primary[1]], primary[1])]
    ELSE [error |-> NoError,
          model_groups |-> PairGroups(ms, sorted, sets, map[primary[1]], map[primary[2]])]


Table(title, fields, rows) == [title |-> title, fields |-> fields, rows |-> rows]

TableGroup(title, tables) == [title |-> title, tables |-> tables]

\* As OtherColumns, but with the table's own parameter.
AllColumns(order, name) == order

\* Lines 462-468: the names of parameter_order other than the table's own.
OtherColumns(order, name) ==
    LET Other(pn) == pn # name
    IN SelectSeq(order, Other)

\* Lines 473-478: the part id, then the formatted values of the columns.
Row(model, columns) ==
    <<TextF(model.part_id)>>
        \o [c \in 1..Len(columns) |-> model.formatted_values[columns[c]]]

\* As ParameterTable, but every model is listed.
ParameterTableOfAll(ms, sorted, order, map, p, entry) ==
    LET columns == OtherColumns(order, p.name)
    IN Table(p.title \o " = " \o FormattedStr(entry[2]),
             <<"Part ID">> \o [c \in 1..Len(columns) |-> map[columns[c]].title],
             [r \in 1..Len(sorted) |-> Row(ms[sorted[r]], columns)])

\* Lines 460-480: the table of one entry of the value set of parameter p.
ParameterTable(ms, sorted, order, map, p, entry) ==
    LET columns == OtherColumns(order, p.name)
        Matches(m) == PyEq(ms[m].values[p.name], entry[1])
        listed == SelectSeq(sorted, Matches)
    IN Table(p.title \o " = " \o FormattedStr(entry[2]),
             <<"Part ID">> \o [c \in 1..Len(columns) |-> map[columns[c]].title],
             [r \in 1..Len(listed) |-> Row(ms[listed[r]], columns)])

\* As HasTables, but with tables for every parameter of two values or more.
HasTablesOfDerived(sets, p) == Len(sets[p.name]) >= 2

\* As HasTables, but with tables for a parameter derived by a formula.
HasTablesUnlessFlagged(sets, p) ==
    Len(sets[p.name]) >= 2 /\ ~(p.is_derived /\ p.derived_expression = "")

\* Lines 454-457: no table group for a parameter with fewer than two values
\* or with is_derived set.
HasTables(sets, p) == Len(sets[p.name]) >= 2 /\ ~p.is_derived

\* _generate_parameter_tables from the i-th name of parameter_order on.
RECURSIVE generate_parameter_tables(_, _, _, _, _, _, _)
generate_parameter_tables(ms, sorted, order, map, sets, i, groups) ==
    IF Len(order) = 1 \/ i > Len(order) THEN groups
    ELSE LET p == map[order[i]]
         IN generate_parameter_tables(ms, sorted, order, map, sets, i + 1,
               IF ~HasTables(sets, p) THEN groups
               ELSE Append(groups,
                      TableGroup("Tables Grouped by " \o p.title,
                         [k \in 1..Len(sets[p.name]) |->
                            ParameterTable(ms, sorted, order, map, p,
                                           sets[p.name][k])])))

\* As generate_tables, but the list of sorted models is turned around.
generate_tables_reversing ==
    /\ pc = "generate_tables"
    /\ \E vs \in {create_value_sets(models, parameter_order, parameter_map, 1,
                                    value_sets)} :
       \E gs \in {IF vs.error.type # ""
                  THEN [error |-> vs.error, model_groups |-> <<>>]
                  ELSE create_main_model_groups(models, sorted_models,
                          parameter_order, primary_group, parameter_map,
                          vs.value_sets)} :
          /\ value_sets' = vs.value_sets
          /\ model_groups' = model_groups \o gs.model_groups
          /\ table_groups' =
                IF gs.error.type # "" THEN table_groups
                ELSE generate_parameter_tables(models, sorted_models,
                        parameter_order, parameter_map, vs.value_sets, 1,
                        table_groups)
          /\ error' = gs.error
          /\ pc' = IF gs.error.type # "" THEN EndOf(gs.error) ELSE "generate_pdf"
    /\ sorted_models' = [i \in 1..Len(sorted_models) |->
                            sorted_models[Len(sorted_models) + 1 - i]]
    /\ UNCHANGED <<parameter, models, parameter_order, detail_order,
                   primary_group, all_parameters, parameter_map, pdf_vars>>

generate_tables ==
    /\ pc = "generate_tables"
    /\ \E vs \in {create_value_sets(models, parameter_order, parameter_map, 1,
                                    value_sets)} :
       \E gs \in {IF vs.error.type # ""
                  THEN [error |-> vs.error, model_groups |-> <<>>]
                  ELSE create_main_model_groups(models, sorted_models,
                          parameter_order, primary_group, parameter_map,
                          vs.value_sets)} :
          /\ value_sets' = vs.value_sets
          /\ model_groups' = model_groups \o gs.model_groups
          /\ table_groups' =
                IF gs.error.type # "" THEN table_groups
                ELSE generate_parameter_tables(models, sorted_models,
                        parameter_order, parameter_map, vs.value_sets, 1,
                        table_groups)
          /\ error' = gs.error
          /\ pc' = IF gs.error.type # "" THEN EndOf(gs.error) ELSE "generate_pdf"
    /\ UNCHANGED <<parameter, models, parameter_order, detail_order,
                   primary_group, all_parameters, parameter_map, sorted_models,
                   pdf_vars>>

----------------------------------------------------------------------------
(* generate_pdf and clean_up                                               *)

\* range(3) of create_pdf_from_latex: the pdflatex runs of one build.
Iterations == 3

\* The return codes of a pdflatex run: success, or a failed build.
ReturnCodes == {0, 1}

\* generate_pdf, lines 528-529: the LaTeX file is written from the tables.
write_latex_file ==
    /\ pc = "generate_pdf"
    /\ tex_written' = TRUE
    /\ pc' = "create_pdf_from_latex"
    /\ UNCHANGED <<error, parameter, models, parameter_order, detail_order,
                   primary_group, all_parameters, parameter_map, sorted_models,
                   value_sets, model_groups, table_groups, pdflatex_runs,
                   pdf_moved, cleaned>>

\* As run_pdflatex, but the loop goes on behind a run that has failed.
run_pdflatex_to_the_end(codes) ==
    /\ pc = "create_pdf_from_latex"
    /\ pdflatex_runs < Iterations
    /\ \E returncode \in codes :
          /\ pdflatex_runs' = pdflatex_runs + 1
          /\ error' = IF returncode # 0
                      THEN Exception("ScriptError", <<"LaTeX build failed: ">>)
                      ELSE error
          /\ pc' = IF pdflatex_runs + 1 = Iterations THEN "move_pdf" ELSE pc
    /\ UNCHANGED <<parameter, models, parameter_order, detail_order,
                   primary_group, all_parameters, parameter_map, sorted_models,
                   value_sets, model_groups, table_groups, tex_written,
                   pdf_moved, cleaned>>

\* One iteration of the loop of create_pdf_from_latex: a pdflatex run, and
\* the ScriptError if its return code is not zero.
run_pdflatex(codes) ==
    /\ pc = "create_pdf_from_latex"
    /\ pdflatex_runs < Iterations
    /\ \E returncode \in codes :
          /\ pdflatex_runs' = pdflatex_runs + 1
          /\ error' = IF returncode # 0
                      THEN Exception("ScriptError", <<"LaTeX build failed: ">>)
                      ELSE error
          /\ pc' = IF returncode # 0 THEN "exit"
                   ELSE IF pdflatex_runs + 1 = Iterations THEN "move_pdf"
                   ELSE pc
    /\ UNCHANGED <<parameter, models, parameter_order, detail_order,
                   primary_group, all_parameters, parameter_map, sorted_models,
                   value_sets, model_groups, table_groups, tex_written,
                   pdf_moved, cleaned>>

\* shutil.move behind the loop of create_pdf_from_latex.
move_pdf ==
    /\ pc = "move_pdf"
    /\ pdf_moved' = TRUE
    /\ pc' = "clean_up"
    /\ UNCHANGED <<error, parameter, models, parameter_order, detail_order,
                   primary_group, all_parameters, parameter_map, sorted_models,
                   value_sets, model_groups, table_groups, tex_written,
                   pdflatex_runs, cleaned>>

clean_up ==
    /\ pc = "clean_up"
    /\ cleaned' = TRUE
    /\ pc' = "done"
    /\ UNCHANGED <<error, parameter, models, parameter_order, detail_order,
                   primary_group, all_parameters, parameter_map, sorted_models,
                   value_sets, model_groups, table_groups, tex_written,
                   pdflatex_runs, pdf_moved>>

----------------------------------------------------------------------------
(* The configurations and the specification                                *)

\* Section derived of the model's config.ini files: area by a formula.
DerivedSection ==
    [area_title |-> "Area", area_unit |-> "",
     area_expression |-> "values['width'] * values['width']"]

OrderNames == {"width", "color", "area"}

ParameterOrders ==
    DistinctSeqs(OrderNames, 1, 2)
        \cup {<<"width", "color", "area">>, <<"color", "area", "width">>}

PrimaryGroups ==
    DistinctSeqs({"width", "color"}, 1, 2) \cup {<<"width", "color", "area">>}

\* parameter_order and primary_group vary, detail_order is absent.
GroupingConfigs ==
    {Config(o, FALSE, <<>>, g, {}, DerivedSection, EmptyMap) :
        o \in ParameterOrders, g \in PrimaryGroups}

\* detail_order names an attribute outside parameter_order.
DetailConfigs ==
    {Config(o, TRUE, <<"depth">>, <<o[1]>>, {}, DerivedSection, EmptyMap) :
        o \in {<<"width">>, <<"color">>, <<"width", "area">>, <<"width", "color">>}}

\* derived_parameters flags a declared attribute.
FlaggedConfigs ==
    {Config(o, FALSE, <<>>, <<o[1]>>, {"color"}, DerivedSection, EmptyMap) :
        o \in {<<"color">>, <<"width", "color">>, <<"color", "width">>,
               <<"width", "color", "area">>}}

Configurations == GroupingConfigs \cup DetailConfigs \cup FlaggedConfigs

Next ==
    \/ read_parameter_file(PartRecords)
    \/ read_configuration(Configurations)
    \/ process_models
    \/ generate_tables

Spec == Init /\ [][Next]_vars

----------------------------------------------------------------------------
(* Catalogs with formulas over two attributes, chained formulas, format    *)
(* rules and a part without a raw value                                    *)

\* Part records: two complete ones, and one that gives no depth.
FormulaRecords ==
    {[width |-> <<"1", "0">>, depth |-> <<"2", "0">>, color |-> <<"r", "e", "d">>],
     [width |-> <<"5">>, depth |-> <<"2", "0">>, color |-> <<"r", "e", "d">>],
     [width |-> <<"1", "0">>, color |-> <<"b", "l", "u", "e">>]}

\* Section derived: area from two raw attributes, volume from area; area
\* has no unit key.
ChainedSection ==
    [area_title |-> "Area",
     area_expression |-> "values['width'] * values['depth']",
     volume_title |-> "Volume", volume_unit |-> "",
     volume_expression |-> "values['area'] * values['depth']"]

\* area and volume by formula; depth is active through detail_order or not
\* at all.
FormulaConfigs ==
    {Config(<<"width", "area">>, TRUE, <<"depth">>, <<"width">>, {},
            ChainedSection, EmptyMap),
     Config(<<"width", "area", "volume">>, TRUE, <<"depth">>, <<"width">>, {},
            ChainedSection, EmptyMap),
     Config(<<"width", "area">>, FALSE, <<>>, <<"width">>, {},
            ChainedSection, EmptyMap)}

\* Section format of the model's config.ini files.
FormatSections ==
    {[width |-> "value * 2"], [color |-> "value * 2"], [width |-> "str(value)"]}

FormatConfigs ==
    {Config(<<"width", "color">>, FALSE, <<>>, <<"color">>, {},
            ChainedSection, f) : f \in FormatSections}

NextFormulas ==
    \/ read_parameter_file(FormulaRecords)
    \/ read_configuration(FormulaConfigs \cup FormatConfigs)
    \/ process_models
    \/ generate_tables

SpecFormulas == Init /\ [][NextFormulas]_vars

----------------------------------------------------------------------------
(* The whole run: configurations that do not resolve, a raw text with a    *)
(* point that is no number, and the PDF build                              *)

\* Part records: a numeric width, and a color text with or without a point.
PipelineRecords ==
    {[width |-> <<"1", "0">>, depth |-> <<"2", "0">>, color |-> <<"r", "e", "d">>],
     [width |-> <<"5">>, depth |-> <<"2", "0">>, color |-> <<"r", "e", "d">>],
     [width |-> <<"5">>, depth |-> <<"2", "0">>, color |-> <<"r", ".", "b">>]}

\* Section derived: weight has a title and no formula; height has no key.
PipelineSection == [weight_title |-> "Weight", weight_unit |-> "g"]

\* Configurations that resolve (with a primary group that is grouped, one
\* that names no active attribute and one of three attributes), and
\* configurations with a name that does not resolve.
PipelineConfigs ==
    {Config(o[1], FALSE, <<>>, o[2], {}, PipelineSection, EmptyMap) :
        o \in {<<<<"width">>, <<"width">>>>,
               <<<<"width", "color">>, <<"width">>>>,
               <<<<"width", "depth">>, <<"color">>>>,
               <<<<"width", "depth", "color">>, <<"width", "depth", "color">>>>,
               <<<<"width", "height">>, <<"width">>>>,
               <<<<"width", "weight">>, <<"width">>>>}}

NextPipeline ==
    \/ read_parameter_file(PipelineRecords)
    \/ read_configuration(PipelineConfigs)
    \/ process_models
    \/ generate_tables
    \/ write_latex_file
    \/ run_pdflatex(ReturnCodes)
    \/ move_pdf
    \/ clean_up

SpecPipeline == Init /\ [][NextPipeline]_vars

----------------------------------------------------------------------------
(* Properties                                                              *)

\* process_models has completed without error.
Processed == pc \in {"generate_tables", "generate_pdf"}

\* generate_tables has completed without error.
TablesGenerated == pc = "generate_pdf"

ActiveSet == Range(parameter_order) \cup Range(detail_order)

Value(m, name) == models[m].values[name]

\* The parts that have the same value of attribute name as part m.
SameValue(m, name) ==
    {j \in 1..Len(models) : PyEq(Value(m, name), Value(j, name))}

\* The parts classified by their value of attribute name.
ValueClasses(name) == {SameValue(m, name) : m \in 1..Len(models)}

\* The entries of sorted_models that are in the set S, in their order.
SortedOf(S) ==
    LET InS(m) == m \in S
    IN SelectSeq(sorted_models, InS)

\* C1: after process_models completes without error, every part has an
\* entry in values and in formatted_values for every attribute name of
\* parameter_order and detail_order.
C1_ValuesComplete ==
    Processed =>
        \A m \in 1..Len(models) :
            \A name \in ActiveSet :
                /\ name \in DOMAIN models[m].values
                /\ name \in DOMAIN models[m].formatted_values

\* Reached: two processed parts with a detail-only attribute and a derived one.
C1_Witness ==
    /\ Processed
    /\ Len(models) >= 2
    /\ \E name \in Range(detail_order) : name \notin Range(parameter_order)
    /\ \E name \in ActiveSet : HasFormula(parameter_map[name])
    /\ \E name \in ActiveSet : ~HasFormula(parameter_map[name])

\* C2: sorted_models is a permutation of the parts; of two parts the one
\* placed first has the smaller value at the first attribute of
\* parameter_order where their values differ, and if their values differ
\* nowhere it is the one that comes first in the input list.
C2_SortedStable ==
    Processed =>
        /\ Len(sorted_models) = Len(models)
        /\ Range(sorted_models) = 1..Len(models)
        /\ \A a, b \in 1..Len(sorted_models) :
              a < b =>
                LET differ == {k \in 1..Len(parameter_order) :
                                 ~PyEq(Value(sorted_models[a], parameter_order[k]),
                                       Value(sorted_models[b], parameter_order[k]))}
                IN IF differ = {} THEN sorted_models[a] < sorted_models[b]
                   ELSE PyLt(Value(sorted_models[a], parameter_order[Min(differ)]),
                             Value(sorted_models[b], parameter_order[Min(differ)]))

\* Reached: three parts, a tie kept in input order, and a part moved forward
\* by the second attribute of the key.
C2_Witness ==
    /\ Processed
    /\ Len(models) = 3
    /\ Len(parameter_order) >= 2
    /\ sorted_models # <<1, 2, 3>>
    /\ \E a, b \in 1..3 :
          /\ a < b
          /\ \A k \in 1..Len(parameter_order) :
                PyEq(Value(sorted_models[a], parameter_order[k]),
                     Value(sorted_models[b], parameter_order[k]))
    /\ \E a, b \in 1..3 :
          /\ a < b
          /\ sorted_models[a] > sorted_models[b]
          /\ PyEq(Value(sorted_models[a], parameter_order[1]),
                  Value(sorted_models[b], parameter_order[1]))

\* _create_value_sets has completed.
ValueSetsCreated ==
    /\ pc \in {"generate_pdf", "crash", "exit"}
    /\ parameter_order # <<>>
    /\ DOMAIN value_sets = Range(parameter_order)

\* C3: the value set of every attribute of parameter_order holds exactly
\* the computed values of the parts, strictly ascending (so pairwise
\* distinct), each paired with format_value of that value.
C3_ValueSets ==
    ValueSetsCreated =>
        \A name \in Range(parameter_order) :
            LET vs == value_sets[name]
            IN /\ \A m \in 1..Len(models) :
                     \E k \in 1..Len(vs) : PyEq(vs[k][1], Value(m, name))
               /\ \A k \in 1..Len(vs) :
                     /\ \E m \in 1..Len(models) : vs[k][1] = Value(m, name)
                     /\ vs[k][2] = format_value(parameter_map[name], vs[k][1])
               /\ \A k, l \in 1..Len(vs) : k < l => PyLt(vs[k][1], vs[l][1])

\* Reached: an attribute with fewer values than parts, among them 10 and
\* 10.0, and a value set in another order than the parts.
C3_Witness ==
    /\ ValueSetsCreated
    /\ Len(models) = 3
    /\ \E name \in Range(parameter_order) :
          /\ Len(value_sets[name]) = 2
          /\ \E m, j \in 1..3 :
                /\ Value(m, name) # Value(j, name)
                /\ PyEq(Value(m, name), Value(j, name))
          /\ PyLt(Value(3, name), Value(1, name))


\* C4: with one primary-group attribute and at least two attributes in
\* parameter_order there is exactly one Group per distinct value of the
\* primary attribute, in ascending order of the value, titled
\* "Models with {title} = {formatted}", whose members are the parts with
\* that value, in global sort order.
C4_SingleGroups ==
    (TablesGenerated /\ Len(primary_group) = 1 /\ Len(parameter_order) >= 2) =>
        LET name == primary_group[1]
        IN /\ Len(model_groups) = Cardinality(ValueClasses(name))
           /\ \A k \in 1..Len(model_groups) :
                 /\ Range(model_groups[k].models) \in ValueClasses(name)
                 /\ model_groups[k].models = SortedOf(Range(model_groups[k].models))
                 /\ model_groups[k].title =
                       "Models with " \o parameter_map[name].title \o " = "
                          \o FormattedStr(value_sets[name][k][2])
                 /\ PyEq(value_sets[name][k][1],
                         Value(model_groups[k].models[1], name))
           /\ \A k, l \in 1..Len(model_groups) :
                 k < l => PyLt(Value(model_groups[k].models[1], name),
                               Value(model_groups[l].models[1], name))

\* Reached: two Groups, one of them with two members that the sort has put
\* in another order than the input.
C4_Witness ==
    /\ TablesGenerated
    /\ Len(primary_group) = 1
    /\ Len(parameter_order) >= 2
    /\ Len(model_groups) = 2
    /\ \E k \in 1..2 :
          /\ Len(model_groups[k].models) = 2
          /\ model_groups[k].models[1] > model_groups[k].models[2]

\* Both primary-group attributes have a value set.
PairGrouping ==
    /\ TablesGenerated
    /\ Len(primary_group) = 2
    /\ Range(primary_group) \subseteq Range(parameter_order)

\* C5: with two primary-group attributes the number of Groups is the
\* product of the sizes of their two value sets, and every part is a member
\* of exactly one Group.
C5_PairPartition ==
    PairGrouping =>
        /\ Len(model_groups) =
              Len(value_sets[primary_group[1]]) * Len(value_sets[primary_group[2]])
        /\ \A m \in 1..Len(models) :
              /\ Cardinality({k \in 1..Len(model_groups) :
                                 m \in Range(model_groups[k].models)}) = 1
              /\ \A k \in 1..Len(model_groups) :
                    Cardinality({i \in 1..Len(model_groups[k].models) :
                                    model_groups[k].models[i] = m}) <= 1

\* Reached: four Groups over three parts, one Group empty and one with two
\* members.
C5_Witness ==
    /\ PairGrouping
    /\ Len(models) = 3
    /\ Len(model_groups) = 4
    /\ \E k \in 1..4 : model_groups[k].models = <<>>
    /\ \E k \in 1..4 : Len(model_groups[k].models) = 2

\* C6: with two primary-group attributes the Groups follow the product of
\* the two value sets, the first attribute outermost; each is titled
\* "Models with {title0} = {formatted0} {title1} = {formatted1}" and holds,
\* in global sort order, the parts that have both values of its pair.
C6_PairOrder ==
    PairGrouping =>
        LET n0 == primary_group[1]
            n1 == primary_group[2]
        IN \A i \in 1..Len(value_sets[n0]) :
              \A j \in 1..Len(value_sets[n1]) :
                 LET k == (i - 1) * Len(value_sets[n1]) + j
                 IN /\ k <= Len(model_groups)
                    /\ model_groups[k].title =
                          "Models with " \o parameter_map[n0].title \o " = "
                             \o FormattedStr(value_sets[n0][i][2]) \o " "
                             \o parameter_map[n1].title \o " = "
                             \o FormattedStr(value_sets[n1][j][2])
                    /\ model_groups[k].models =
                          SortedOf({m \in 1..Len(models) :
                                       /\ PyEq(Value(m, n0), value_sets[n0][i][1])
                                       /\ PyEq(Value(m, n1), value_sets[n1][j][1])})

\* Reached: two values of each attribute and three parts, each in a Group
\* of its own: the second, the third and the fourth of the product.
C6_Witness ==
    /\ PairGrouping
    /\ Len(value_sets[primary_group[1]]) = 2
    /\ Len(value_sets[primary_group[2]]) = 2
    /\ Len(model_groups) = 4
    /\ model_groups[1].models = <<>>
    /\ \A k \in 2..4 : Len(model_groups[k].models) = 1
    /\ sorted_models # <<1, 2, 3>>

\* C7: when parameter_order and detail_order together name exactly one
\* attribute, generate_tables produces exactly one Group, with an empty
\* title and all parts in global sort order, and no TableGroup, whatever
\* primary_group names.
C7_SingleAttribute ==
    (TablesGenerated /\ Cardinality(ActiveSet) = 1) =>
        /\ model_groups = <<ModelGroup("", sorted_models)>>
        /\ Len(sorted_models) = Len(models)
        /\ table_groups = <<>>

\* Reached: one attribute with two values over three parts, sorted into
\* another order, under a primary group of another attribute.
C7_Witness ==
    /\ TablesGenerated
    /\ Cardinality(ActiveSet) = 1
    /\ Len(models) = 3
    /\ Len(value_sets[parameter_order[1]]) = 2
    /\ sorted_models # <<1, 2, 3>>
    /\ primary_group[1] \notin ActiveSet

\* Reached as well: the same under a primary group of three attributes.
C7_WitnessThree ==
    /\ TablesGenerated
    /\ Cardinality(ActiveSet) = 1
    /\ Len(primary_group) = 3

\* parameter_order names one attribute, detail_order a further one, and
\* primary_group the attribute of parameter_order.
C8_Case ==
    /\ TablesGenerated
    /\ Len(parameter_order) = 1
    /\ Cardinality(ActiveSet) >= 2
    /\ primary_group = parameter_order

\* C8 as claimed, for a primary attribute with two values or more: in that
\* case generate_tables produces one titled Group per distinct value of the
\* primary attribute, not one Group with an empty title.
C8_Claimed ==
    (C8_Case /\ Cardinality(ValueClasses(primary_group[1])) >= 2) =>
        /\ Len(model_groups) = Cardinality(ValueClasses(primary_group[1]))
        /\ \A k \in 1..Len(model_groups) :
              model_groups[k].title =
                 "Models with " \o parameter_map[primary_group[1]].title \o " = "
                    \o FormattedStr(value_sets[primary_group[1]][k][2])

\* C8 as amended: primary grouping is skipped whenever parameter_order
\* names exactly one attribute, also when detail_order names further
\* attributes: there is one Group, with an empty title and all parts in
\* global sort order.
C8_SkippedByParameterOrder ==
    C8_Case =>
        /\ model_groups = <<ModelGroup("", sorted_models)>>
        /\ Range(sorted_models) = 1..Len(models)

\* Reached: the case of C8 with two values of the primary attribute.
C8_Witness ==
    /\ C8_Case
    /\ Len(models) >= 2
    /\ Cardinality(ValueClasses(primary_group[1])) = 2

\* The titles of the TableGroups.
TableGroupTitles == [g \in 1..Len(table_groups) |-> table_groups[g].title]

\* "Tables Grouped by {title}" for the names of s, in their order.
GroupedBy(s) ==
    [g \in 1..Len(s) |-> "Tables Grouped by " \o parameter_map[s[g]].title]

\* C9 as claimed, where parameter_order itself has more than one attribute
\* (C8 has the other case of an active parameter set of more than one):
\* table_groups holds, in parameter_order order, one TableGroup for every
\* attribute of parameter_order with at least two distinct values that is
\* not derived without a formula, so one for an attribute derived by a
\* formula too.
C9_Claimed ==
    (TablesGenerated /\ Cardinality(ActiveSet) > 1 /\ Len(parameter_order) > 1) =>
        LET Claimed(name) ==
               /\ Cardinality(ValueClasses(name)) >= 2
               /\ ~(parameter_map[name].is_derived
                    /\ parameter_map[name].derived_expression = "")
        IN TableGroupTitles = GroupedBy(SelectSeq(parameter_order, Claimed))

\* The attributes of parameter_order that get a TableGroup: those with at
\* least two distinct values that are not marked derived.
Tabulated ==
    LET Own(name) == /\ Cardinality(ValueClasses(name)) >= 2
                     /\ ~parameter_map[name].is_derived
    IN IF Len(parameter_order) = 1 THEN <<>>
       ELSE SelectSeq(parameter_order, Own)

\* C9 as amended: when parameter_order has more than one attribute,
\* table_groups holds, in parameter_order order, exactly one TableGroup
\* titled "Tables Grouped by {title}" for every attribute of
\* parameter_order that has at least two distinct values and is not marked
\* derived, be it by derived_parameters or by a formula, and none for any
\* other attribute.
C9_TableGroups ==
    (TablesGenerated /\ Len(parameter_order) > 1) =>
        TableGroupTitles = GroupedBy(Tabulated)

\* Reached: a formula-derived attribute and a flagged attribute, each with
\* two distinct values and without a TableGroup, beside one TableGroup.
C9_Witness ==
    /\ TablesGenerated
    /\ Len(parameter_order) > 1
    /\ Len(table_groups) = 1
    /\ \E name \in Range(parameter_order) :
          /\ HasFormula(parameter_map[name])
          /\ Cardinality(ValueClasses(name)) >= 2
    /\ \E name \in Range(parameter_order) :
          /\ parameter_map[name].is_derived
          /\ ~HasFormula(parameter_map[name])
          /\ Cardinality(ValueClasses(name)) >= 2

\* C10: a TableGroup holds one Table per distinct value of its attribute,
\* in ascending order of the value, with subtitle "{title} = {formatted}";
\* the headers are "Part ID" and the titles of the other attributes of
\* parameter_order in that order; the rows are the parts with the Table's
\* value, in global sort order; a row is the part id and the part's
\* formatted values of the other attributes, a cell per header.
C10_Tables ==
    TablesGenerated =>
      /\ Len(table_groups) = Len(Tabulated)
      /\ \A g \in 1..Len(table_groups) :
            LET name == Tabulated[g]
                tables == table_groups[g].tables
                Other(pn) == pn # name
                others == SelectSeq(parameter_order, Other)
            IN /\ Len(tables) = Cardinality(ValueClasses(name))
               /\ \A k, l \in 1..Len(tables) :
                     k < l => PyLt(value_sets[name][k][1], value_sets[name][l][1])
               /\ \A k \in 1..Len(tables) :
                     LET listed == SortedOf({m \in 1..Len(models) :
                                      PyEq(Value(m, name), value_sets[name][k][1])})
                     IN /\ tables[k].title =
                              parameter_map[name].title \o " = "
                                 \o FormattedStr(value_sets[name][k][2])
                        /\ tables[k].fields =
                              <<"Part ID">> \o [c \in 1..Len(others) |->
                                                  parameter_map[others[c]].title]
                        /\ Len(tables[k].rows) = Len(listed)
                        /\ listed # <<>>
                        /\ \A r \in 1..Len(listed) :
                              /\ Len(tables[k].rows[r]) = Len(tables[k].fields)
                              /\ tables[k].rows[r][1] = TextF(models[listed[r]].part_id)
                              /\ \A c \in 1..Len(others) :
                                    tables[k].rows[r][c + 1] =
                                       models[listed[r]].formatted_values[others[c]]

\* Reached: a Table with two other columns and two rows that the sort has
\* put in another order than the input.
C10_Witness ==
    /\ TablesGenerated
    /\ Len(parameter_order) = 3
    /\ \E g \in 1..Len(table_groups) :
          \E k \in 1..Len(table_groups[g].tables) :
             LET t == table_groups[g].tables[k]
             IN /\ Len(t.fields) = 3
                /\ Len(t.rows) = 2
                /\ \E a, b \in 1..Len(models) :
                      /\ a > b
                      /\ t.rows[1][1] = TextF(models[a].part_id)
                      /\ t.rows[2][1] = TextF(models[b].part_id)

----------------------------------------------------------------------------
(* Flagged attributes, coercion, formulas and formatting                   *)

\* The active attributes flagged by derived_parameters without a formula.
Flagged ==
    {name \in DOMAIN parameter_map :
        /\ parameter_map[name].is_derived
        /\ parameter_map[name].derived_expression = ""}

\* The attributes listed before name in parameter_order.
Before(name) ==
    {parameter_order[k] : k \in {i \in 1..Len(parameter_order) :
        \A j \in 1..i : parameter_order[j] # name}}

\* C11: a declared attribute flagged by derived_parameters without a formula
\* is resolved like a raw attribute: its value is the coerced raw value of
\* the part, it decides the sort order among parts equal in the attributes
\* before it, it has a value set and is a column of the tables of the other
\* attributes; no TableGroup is built for it.
C11_FlaggedAttribute ==
    /\ Processed =>
          \A name \in Flagged :
             /\ \A m \in 1..Len(models) :
                   Value(m, name) = Coerce(models[m].original_values[name])
             /\ name \in Range(parameter_order) =>
                   \A i, j \in 1..Len(sorted_models) :
                      (/\ i < j
                       /\ \A b \in Before(name) :
                             PyEq(Value(sorted_models[i], b), Value(sorted_models[j], b)))
                      => ~PyLt(Value(sorted_models[j], name),
                               Value(sorted_models[i], name))
    /\ TablesGenerated =>
          \A name \in Flagged \cap Range(parameter_order) :
             /\ Len(value_sets[name]) = Cardinality(ValueClasses(name))
             /\ \A g \in 1..Len(table_groups) :
                   /\ table_groups[g].title #
                         "Tables Grouped by " \o parameter_map[name].title
                   /\ \A k \in 1..Len(table_groups[g].tables) :
                         parameter_map[name].title
                            \in Range(table_groups[g].tables[k].fields)

\* Reached: color is flagged and has two values, the parts come sorted by
\* color among equal widths, and the tables by width list it as a column.
C11_Witness ==
    /\ TablesGenerated
    /\ "color" \in Flagged
    /\ parameter_order = <<"width", "color">>
    /\ Len(value_sets["color"]) = 2
    /\ table_groups # <<>>
    /\ \E i, j \in 1..Len(models) :
          /\ i < j
          /\ PyEq(Value(i, "width"), Value(j, "width"))
          /\ PyLt(Value(j, "color"), Value(i, "color"))

\* The raw text of attribute name of part m.
Raw(m, name) == models[m].original_values[name]

\* C12: after process_models the value of every attribute without formula
\* is its raw text coerced: a text with a decimal point parsed as a float,
\* any other text parsed as an integer where that parse succeeds, and the
\* unchanged string where it fails.
C12_Coercion ==
    Processed =>
        \A m \in 1..Len(models) :
            \A name \in ActiveSet :
                ~HasFormula(parameter_map[name]) =>
                    /\ "." \in Range(Raw(m, name)) =>
                          /\ Value(m, name).kind = "float"
                          /\ Value(m, name) = ParseFloat(Raw(m, name))
                    /\ ("." \notin Range(Raw(m, name)) /\ IntParses(Raw(m, name))) =>
                          /\ Value(m, name).kind = "int"
                          /\ Value(m, name) = ParseInt(Raw(m, name))
                    /\ ("." \notin Range(Raw(m, name)) /\ ~IntParses(Raw(m, name))) =>
                          Value(m, name) = StrV(Raw(m, name))
                    /\ Raw(m, name) = <<"1", "0", ".", "0">> =>
                          Value(m, name) = FloatV(100)
                    /\ Raw(m, name) = <<"1", "0">> => Value(m, name) = IntV(10)

\* Reached: processed parts with a float, an integer and a string value.
C12_Witness ==
    /\ Processed
    /\ {"width", "color"} \subseteq ActiveSet
    /\ \E m \in 1..Len(models) : Value(m, "width") = FloatV(100)
    /\ \E m \in 1..Len(models) : Value(m, "width") = IntV(5)
    /\ \E m \in 1..Len(models) : Value(m, "color") = StrV(<<"r", "e", "d">>)

\* C13: the value of a formula-derived attribute is exactly the result of
\* its formula over the part's base values: with area = width * depth, the
\* area of every part with integer width and depth is the integer product,
\* and a part with width 10 and depth 20 has the integer 200.
C13_ExactProduct ==
    (/\ Processed
     /\ "area" \in ActiveSet
     /\ parameter_map["area"].derived_expression
            = "values['width'] * values['depth']") =>
        \A m \in 1..Len(models) :
            /\ (Value(m, "width").kind = "int" /\ Value(m, "depth").kind = "int") =>
                  Value(m, "area") =
                     IntV(Value(m, "width").num * Value(m, "depth").num)
            /\ (Raw(m, "width") = <<"1", "0">> /\ Raw(m, "depth") = <<"2", "0">>) =>
                  /\ Value(m, "area") = IntV(200)
                  /\ models[m].formatted_values["area"] = TextF("200")

\* Reached: a processed part of width 10 and depth 20 with area 200.
C13_Witness ==
    /\ Processed
    /\ "area" \in ActiveSet
    /\ parameter_map["area"].derived_expression
           = "values['width'] * values['depth']"
    /\ \E m \in 1..Len(models) :
          /\ Raw(m, "width") = <<"1", "0">>
          /\ Raw(m, "depth") = <<"2", "0">>
          /\ Value(m, "area") = IntV(200)

----------------------------------------------------------------------------
(* The order of evaluation and the ends of a run that fails                *)

\* read_configuration has completed without error.
ConfigRead ==
    /\ pc \notin {"read_parameter_file", "read_configuration"}
    /\ DOMAIN parameter_map = ActiveSet
    /\ parameter_order # <<>>

\* run() has ended inside the loop of process_models: no model list was
\* sorted.
PassFailed ==
    /\ ConfigRead
    /\ pc \in {"exit", "crash"}
    /\ models # <<>>
    /\ sorted_models = <<>>

\* The parts that give no raw value for an active attribute without formula.
MissingRaw(name) ==
    {m \in 1..Len(models) : name \notin DOMAIN models[m].original_values}

NoneMissing ==
    \A name \in ActiveSet :
        ~HasFormula(parameter_map[name]) => MissingRaw(name) = {}

\* The active attributes as the configuration lists them: parameter_order,
\* then detail_order.
Configured == parameter_order \o detail_order

ListedBefore(a, b) ==
    \E i, j \in 1..Len(Configured) :
        i < j /\ Configured[i] = a /\ Configured[j] = b

\* Every formula refers to active attributes only, and to a formula-derived
\* one only if the configuration lists that one earlier.
FormulasInOrder ==
    \A name \in ActiveSet :
        HasFormula(parameter_map[name]) =>
            \A k \in 1..2 :
                LET operand == Operands(parameter_map[name].derived_expression)[k]
                IN /\ operand \in ActiveSet
                   /\ HasFormula(parameter_map[operand]) => ListedBefore(operand, name)

\* C14 as claimed: Pass 2 evaluates the formulas in the order the
\* configuration lists the attributes, after Pass 1 has stored all base
\* values, so that a formula that refers to base attributes of the active
\* set and to formula-derived attributes listed earlier never misses a
\* value in the values map.
C14_Claimed ==
    (ConfigRead /\ FormulasInOrder /\ NoneMissing) =>
        ~(PassFailed /\ error.type = "KeyError")

----------------------------------------------------------------------------
(* Formatting                                                              *)

\* The formatted value of attribute name of part m.
Formatted(m, name) == models[m].formatted_values[name]

\* C15: without a format rule a value that is no float is rendered as its
\* natural text, followed by one space and the unit if and only if the unit
\* is neither empty nor the literal None; otherwise the text ends with the
\* value.  The same holds for the labels of the value sets.
C15_DefaultFormat ==
    /\ Processed =>
          \A m \in 1..Len(models) :
             \A name \in ActiveSet :
                LET p == parameter_map[name]
                    natural == PyStr(Value(m, name))
                IN (p.format_expression = "" /\ Value(m, name).kind # "float") =>
                      /\ Formatted(m, name).is_text
                      /\ (p.unit # "" /\ p.unit # "None") =>
                            Formatted(m, name).text = natural \o " " \o p.unit
                      /\ (p.unit = "" \/ p.unit = "None") =>
                            Formatted(m, name).text = natural
    /\ TablesGenerated =>
          \A name \in Range(parameter_order) :
             \A k \in 1..Len(value_sets[name]) :
                LET p == parameter_map[name]
                    entry == value_sets[name][k]
                IN (p.format_expression = "" /\ entry[1].kind # "float") =>
                      entry[2] = TextF(IF p.unit # "" /\ p.unit # "None"
                                       THEN PyStr(entry[1]) \o " " \o p.unit
                                       ELSE PyStr(entry[1]))

\* Reached: a part with a unit of its own, with the unit None and with an
\* empty unit.
C15_Witness ==
    /\ TablesGenerated
    /\ \E m \in 1..Len(models) :
          /\ {"width", "color", "area"} \subseteq DOMAIN models[m].formatted_values
          /\ Formatted(m, "width") = TextF("5 mm")
          /\ Formatted(m, "color") = TextF("red")
          /\ Formatted(m, "area") = TextF("25")

\* C16 as claimed: with a format rule format_value returns the result of
\* the rule as text, so every entry of every part's formatted_values, every
\* label of a value set and every table cell is a string, whatever the type
\* of the rule's result.
C16_Claimed ==
    /\ Processed =>
          \A m \in 1..Len(models) :
             \A name \in ActiveSet : Formatted(m, name).is_text
    /\ TablesGenerated =>
          /\ \A name \in Range(parameter_order) :
                \A k \in 1..Len(value_sets[name]) : value_sets[name][k][2].is_text
          /\ \A g \in 1..Len(table_groups) :
                \A k \in 1..Len(table_groups[g].tables) :
                   \A r \in 1..Len(table_groups[g].tables[k].rows) :
                      \A c \in 1..Len(table_groups[g].tables[k].rows[r]) :
                         table_groups[g].tables[k].rows[r][c].is_text

----------------------------------------------------------------------------
(* The catalog of parts A, B and C                                         *)

\* The catalog with parameter_order = [width, color], primary_group = color
\* and the parts A (width 10, red), B (width 5, red), C (width 10, blue).
ThreeParts ==
    /\ ConfigRead
    /\ parameter_order = <<"width", "color">>
    /\ detail_order = parameter_order
    /\ primary_group = <<"color">>
    /\ Flagged = {}
    /\ Len(models) = 3
    /\ Raw(1, "width") = <<"1", "0">> /\ Raw(1, "color") = <<"r", "e", "d">>
    /\ Raw(2, "width") = <<"5">> /\ Raw(2, "color") = <<"r", "e", "d">>
    /\ Raw(3, "width") = <<"1", "0">> /\ Raw(3, "color") = <<"b", "l", "u", "e">>

\* C17: for that catalog the global sort order is [B, C, A]; there are
\* exactly two Groups, the red one with the members [B, A] and the blue one
\* with the member [C]; the TableGroup "Tables Grouped by Width" has exactly
\* the two Tables of width 5 and width 10, each with the headers Part ID and
\* Color.
C17_ThreeParts ==
    /\ (ThreeParts /\ Processed) => sorted_models = <<2, 3, 1>>
    /\ (ThreeParts /\ TablesGenerated) =>
          /\ Len(model_groups) = 2
          /\ \E g \in 1..2 :
                /\ model_groups[g].title = "Models with Color = red"
                /\ model_groups[g].models = <<2, 1>>
          /\ \E g \in 1..2 :
                /\ model_groups[g].title = "Models with Color = blue"
                /\ model_groups[g].models = <<3>>
          /\ Cardinality({g \in 1..Len(table_groups) :
                table_groups[g].title = "Tables Grouped by Width"}) = 1
          /\ \A g \in 1..Len(table_groups) :
                table_groups[g].title = "Tables Grouped by Width" =>
                   /\ Len(table_groups[g].tables) = 2
                   /\ table_groups[g].tables[1].title = "Width = 5 mm"
                   /\ table_groups[g].tables[2].title = "Width = 10 mm"
                   /\ \A k \in 1..2 :
                         table_groups[g].tables[k].fields = <<"Part ID", "Color">>

\* Reached: the tables of that catalog are generated.
C17_Witness ==
    /\ ThreeParts
    /\ TablesGenerated
    /\ models[1].part_id = "A"
    /\ models[2].part_id = "B"
    /\ models[3].part_id = "C"
    /\ Len(table_groups) = 2

----------------------------------------------------------------------------
(* Fatal errors                                                            *)

\* run() has left generate_tables, with or without an exception, for a
\* catalog of at least one part.
TablesEnded ==
    /\ ConfigRead
    /\ pc \in {"generate_pdf", "exit", "crash"}
    /\ models # <<>>
    /\ ~PassFailed
    /\ ~SortRaises(models, parameter_order)

\* C18 as claimed: whenever primary_group names more than two attributes,
\* whatever the length of parameter_order, the run ends in generate_tables
\* with a fatal error that run() reports as its diagnostic, and neither a
\* Group nor a TableGroup is produced.
C18_Claimed ==
    (TablesEnded /\ Len(primary_group) > 2) =>
        /\ pc = "exit"
        /\ error.type = "ScriptError"
        /\ model_groups = <<>>
        /\ table_groups = <<>>

\* process_models has acted on a catalog whose first part gives no raw
\* value for name, an active attribute without formula.
FirstPartMisses(name) ==
    /\ ConfigRead
    /\ pc # "process_models"
    /\ name \in ActiveSet
    /\ ~HasFormula(parameter_map[name])
    /\ 1 \in MissingRaw(name)

\* C19 as claimed: if a part has no raw value for an active attribute
\* without formula, process_models ends the run with a fatal error whose
\* diagnostic names the part id and the attribute; the part is not skipped
\* and gets no default value.
C19_Claimed ==
    \A name \in {"width", "depth", "color"} :
        FirstPartMisses(name) =>
            /\ PassFailed
            /\ models[1].values = EmptyMap
            /\ pc = "exit"
            /\ name \in Range(error.message)
            /\ models[1].part_id \in Range(error.message)

\* The active formula-derived attributes whose formula refers to a name
\* that is no active attribute: eval() fails for every part.
Unbound ==
    {name \in ActiveSet :
        /\ HasFormula(parameter_map[name])
        /\ \E k \in 1..2 :
              Operands(parameter_map[name].derived_expression)[k] \notin ActiveSet}

\* C20 as claimed: if the evaluation of a derived formula fails for a part,
\* the run ends with a fatal error that reports the name of the attribute
\* and the part id.
C20_Claimed ==
    (/\ ConfigRead
     /\ pc # "process_models"
     /\ models # <<>>
     /\ NoneMissing
     /\ Unbound # {}) =>
        /\ PassFailed
        /\ pc = "exit"
        /\ \E name \in Unbound : name \in Range(error.message)
        /\ \E m \in 1..Len(models) : models[m].part_id \in Range(error.message)

----------------------------------------------------------------------------
(* Names that do not resolve                                               *)

\* read_configuration has acted.
ConfigurationEnded == pc \notin {"read_parameter_file", "read_configuration"}

\* The active names that are neither declared nor given a title in section
\* derived.
Undefined ==
    {name \in ActiveSet :
        /\ name \notin DOMAIN parameter
        /\ (name \o "_title") \notin DOMAIN PipelineSection}

\* The active names that are not declared and have a title but no formula
\* in section derived.
WithoutFormula ==
    {name \in ActiveSet :
        /\ name \notin DOMAIN parameter
        /\ (name \o "_title") \in DOMAIN PipelineSection
        /\ (name \o "_expression") \notin DOMAIN PipelineSection}

\* C21: if a name of parameter_order or detail_order is neither declared
\* nor defined in section derived, read_configuration ends the run with a
\* ScriptError whose message names such a name, no Parameter is registered
\* for it, and no later step runs.
C21_UndefinedName ==
    (ConfigurationEnded /\ Undefined # {} /\ WithoutFormula = {}) =>
        /\ pc = "exit"
        /\ error.type = "ScriptError"
        /\ \E name \in Undefined : name \in Range(error.message)
        /\ \A name \in Undefined : name \notin DOMAIN parameter_map
        /\ models # <<>> => models[1].values = EmptyMap

\* Reached: the run has ended on the name height, with parts loaded.
C21_Witness ==
    /\ ConfigurationEnded
    /\ Undefined = {"height"}
    /\ pc = "exit"
    /\ "height" \in Range(error.message)
    /\ Len(models) >= 1

\* C22 as claimed: if an undeclared name has a title but no formula in
\* section derived, read_configuration ends the run with a ScriptError whose
\* message names that attribute.
C22_Claimed ==
    (ConfigurationEnded /\ WithoutFormula # {} /\ Undefined = {}) =>
        /\ pc = "exit"
        /\ error.type = "ScriptError"
        /\ \E name \in WithoutFormula : name \in Range(error.message)

----------------------------------------------------------------------------
(* Failure and the later steps                                             *)

\* process_models or generate_tables has raised an exception.
StepFailed ==
    /\ ConfigRead
    /\ error.type \in {"KeyError", "ValueError", "TypeError"}

\* C23: in every state in which process_models or generate_tables has
\* failed, model_groups and table_groups are empty, no LaTeX file is
\* written, no pdflatex run is made, no PDF is moved and nothing is cleaned
\* up; and run() takes no step from such a state.
C23_NoPartialReport ==
    /\ [](StepFailed =>
            /\ pc \in {"exit", "crash"}
            /\ model_groups = <<>>
            /\ table_groups = <<>>
            /\ ~tex_written
            /\ pdflatex_runs = 0
            /\ ~pdf_moved
            /\ ~cleaned)
    /\ [][~StepFailed]_vars

\* Reached: generate_tables has failed on a primary group of three, behind
\* value sets that were created for parts that were processed.
C23_Witness ==
    /\ StepFailed
    /\ error.type = "ValueError"
    /\ Len(primary_group) = 3
    /\ Len(sorted_models) >= 2
    /\ DOMAIN value_sets = Range(parameter_order)

----------------------------------------------------------------------------
(* Determinism                                                             *)

\* The parts as read_parameter_file hands them to a run.
Unprocessed ==
    [m \in 1..Len(models) |-> Model(models[m].part_id, models[m].original_values)]

\* C24 as claimed: a second run over the same declarations, part records
\* and configuration, with any other iteration order of the active
\* attribute collection, ends process_models in the same outcome as this
\* run: the same exception, or the same values of all parts (and with them
\* the same sorted list, Groups and TableGroups).
C24_Claimed ==
    (ConfigRead /\ pc # "process_models") =>
        \A all \in Permutations_of(ActiveSet) :
            LET second == ProcessLoop(Unprocessed, all, parameter_map, 1)
            IN IF PassFailed
               THEN second.error = error
               ELSE second.error = NoError /\ second.models = models

----------------------------------------------------------------------------
(* The parts behind process_models                                         *)

\* C25: the part list changes in read_parameter_file, which loads it, and
\* in process_models, which fills the value maps of parts that have none
\* and leaves the list, the part ids and the raw values as they are;
\* sorted_models changes in process_models only.  generate_tables and the
\* steps behind it leave both unchanged.
C25_PartsFrame ==
    [][/\ models' # models =>
            \/ pc = "read_parameter_file"
            \/ /\ pc = "process_models"
               /\ Len(models') = Len(models)
               /\ \A m \in 1..Len(models) :
                     /\ models[m].values = EmptyMap
                     /\ models[m].formatted_values = EmptyMap
                     /\ models'[m].part_id = models[m].part_id
                     /\ models'[m].original_values = models[m].original_values
       /\ sorted_models' # sorted_models => pc = "process_models"
       /\ pc = "generate_tables" => UNCHANGED <<models, sorted_models>>]_vars

\* Reached: the run is through all its steps, with two parts or more in
\* Groups and tables.
C25_Witness ==
    /\ pc = "done"
    /\ Len(sorted_models) >= 2
    /\ model_groups # <<>>
    /\ table_groups # <<>>
    /\ \A m \in 1..Len(models) : models[m].values # EmptyMap

----------------------------------------------------------------------------
(* Labels, tables and groups                                               *)

\* The parts listed in the rows of a table.
Listed(table) ==
    {m \in 1..Len(models) :
        \E r \in 1..Len(table.rows) : table.rows[r][1] = TextF(models[m].part_id)}

\* C26 as claimed: the formatted text in the title of every titled Group
\* and of every Table, for the attribute it groups by, is the
\* formatted_values entry of that attribute of every part that is a member
\* of the Group or listed in the Table, also for raw values such as 10 and
\* 10.0 that coerce to equal numbers of different type.
C26_Claimed ==
    (TablesGenerated /\ Len(parameter_order) > 1) =>
        /\ Len(primary_group) = 1 =>
              \A g \in 1..Len(model_groups) :
                 \A i \in 1..Len(model_groups[g].models) :
                    model_groups[g].title =
                       "Models with " \o parameter_map[primary_group[1]].title
                          \o " = " \o FormattedStr(
                                Formatted(model_groups[g].models[i], primary_group[1]))
        /\ Len(primary_group) = 2 =>
              \A g \in 1..Len(model_groups) :
                 \A i \in 1..Len(model_groups[g].models) :
                    model_groups[g].title =
                       "Models with"
                          \o " " \o parameter_map[primary_group[1]].title \o " = "
                          \o FormattedStr(
                                Formatted(model_groups[g].models[i], primary_group[1]))
                          \o " " \o parameter_map[primary_group[2]].title \o " = "
                          \o FormattedStr(
                                Formatted(model_groups[g].models[i], primary_group[2]))
        /\ \A g \in 1..Len(table_groups) :
              \A k \in 1..Len(table_groups[g].tables) :
                 \A m \in Listed(table_groups[g].tables[k]) :
                    table_groups[g].tables[k].title =
                       parameter_map[Tabulated[g]].title \o " = "
                          \o FormattedStr(Formatted(m, Tabulated[g]))

\* The rows of the tables of a table group that list part m, as pairs of
\* table and row.
RowsOf(group, m) ==
    {<<k, r>> \in (1..Len(group.tables)) \X (1..Len(models)) :
        /\ r <= Len(group.tables[k].rows)
        /\ group.tables[k].rows[r][1] = TextF(models[m].part_id)}

\* C27: in every TableGroup every part is in exactly one row of exactly
\* one Table, no Table is without rows, and there are as many Tables as the
\* attribute of the TableGroup has distinct values.
C27_TablesPartition ==
    TablesGenerated =>
        \A g \in 1..Len(table_groups) :
            /\ \A m \in 1..Len(models) :
                  Cardinality(RowsOf(table_groups[g], m)) = 1
            /\ \A k \in 1..Len(table_groups[g].tables) :
                  /\ table_groups[g].tables[k].rows # <<>>
                  /\ Len(table_groups[g].tables[k].rows) <= Len(models)
            /\ \E name \in Range(parameter_order) :
                  /\ table_groups[g].title =
                        "Tables Grouped by " \o parameter_map[name].title
                  /\ Len(table_groups[g].tables) = Cardinality(ValueClasses(name))

\* Reached: three parts in two tables of one table group, one of them with
\* two rows.
C27_Witness ==
    /\ TablesGenerated
    /\ Len(models) = 3
    /\ \E g \in 1..Len(table_groups) :
          /\ Len(table_groups[g].tables) = 2
          /\ \E k \in 1..2 : Len(table_groups[g].tables[k].rows) = 2

\* The member lists of the first n Groups, one behind the other.
RECURSIVE Members(_)
Members(n) ==
    IF n = 0 THEN <<>> ELSE Members(n - 1) \o model_groups[n].models

\* Primary grouping by one attribute has taken place.
SingleGrouping ==
    /\ TablesGenerated
    /\ Len(parameter_order) > 1
    /\ Len(primary_group) = 1

\* C28: with a primary group of one attribute no Group is empty and every
\* part is a member of exactly one Group; if that attribute is the first
\* of parameter_order, the member lists of the Groups in Group order, one
\* behind the other, are the global sorted part list.
C28_GroupsPartition ==
    SingleGrouping =>
        /\ \A g \in 1..Len(model_groups) : model_groups[g].models # <<>>
        /\ \A m \in 1..Len(models) :
              Cardinality({<<g, i>> \in (1..Len(model_groups)) \X (1..Len(models)) :
                              /\ i <= Len(model_groups[g].models)
                              /\ model_groups[g].models[i] = m}) = 1
        /\ primary_group[1] = parameter_order[1] =>
              Members(Len(model_groups)) = sorted_models

\* Reached: three parts in two Groups by the first attribute of
\* parameter_order, and in two Groups by the second.
C28_Witness ==
    /\ SingleGrouping
    /\ Len(models) = 3
    /\ Len(model_groups) = 2
    /\ primary_group[1] = parameter_order[1]
    /\ sorted_models # <<1, 2, 3>>

----------------------------------------------------------------------------
(* Coercion of any text                                                    *)

\* C29 as claimed: Pass 1 is total over the raw values that are supplied:
\* if every part gives a raw value for every active attribute, none of them
\* with a formula, then whatever the texts are (numeric, or categorical
\* with or without a point), process_models does not fail and stores a
\* typed value for each of them.
C29_Claimed ==
    (/\ ConfigRead
     /\ pc # "process_models"
     /\ NoneMissing
     /\ \A name \in ActiveSet : ~HasFormula(parameter_map[name])) =>
        /\ ~PassFailed
        /\ \A m \in 1..Len(models) :
              \A name \in ActiveSet :
                 /\ name \in DOMAIN models[m].values
                 /\ Value(m, name).kind \in {"int", "float", "str"}

----------------------------------------------------------------------------
(* The pdflatex runs, the move of the PDF and the clean-up                 *)

\* A pdflatex run has returned a code that is not zero.
BuildFailed ==
    error = Exception("ScriptError", <<"LaTeX build failed: ">>)

\* C30: create_pdf_from_latex runs pdflatex at most three times, one run
\* after the other; the first run with a non-zero return code raises
\* ScriptError at once, with no further run, no move of the PDF and no
\* clean-up behind it; the PDF is moved only after three runs that all
\* succeeded; and run() cleans the intermediate directory only after the
\* move.
C30_PdfBuild ==
    /\ [](pdflatex_runs \in 0..Iterations)
    /\ [](BuildFailed => pc = "exit" /\ ~pdf_moved /\ ~cleaned)
    /\ [](pdf_moved => pdflatex_runs = Iterations /\ error = NoError)
    /\ [](cleaned => pdf_moved)
    /\ [][pdflatex_runs' # pdflatex_runs =>
             /\ pdflatex_runs' = pdflatex_runs + 1
             /\ tex_written
             /\ error = NoError
             /\ ~pdf_moved]_vars
    /\ [][BuildFailed => UNCHANGED <<pdflatex_runs, pdf_moved, cleaned>>]_vars
    /\ [][pdf_moved' # pdf_moved => pdflatex_runs = Iterations /\ ~cleaned']_vars

\* The third run has succeeded, the PDF is moved and the intermediate
\* directory is cleaned.
C30_Witness ==
    /\ pdflatex_runs = Iterations
    /\ error = NoError
    /\ pdf_moved
    /\ cleaned

====
